---- MODULE Spec2Model ----
(***************************************************************************)
(* Model of the command-line HTTP client in src/main.go: parseFlags, the   *)
(* request construction, the output destination and the response copy loop *)
(* of main, and the two pure helpers guessDataType and parseSize.          *)
(*                                                                         *)
(* Go strings are sequences of one-character strings.  A Go pointer or map *)
(* that may be nil is a sequence of length 0 (nil) or 1 (the value).       *)
(*                                                                         *)
(* Not modelled: the -v printing, which changes no state; a command line   *)
(* that go-flags rejects; a URL or method that http.NewRequest rejects;    *)
(* a failing write to an open output stream.                               *)
(***************************************************************************)
EXTENDS Integers, Sequences, FiniteSets, TLC

VARIABLES argv, server, fs, args, pc, panicMsg, req, res, stdout, buffer, n, total, err, srcPos, nread, written, shortReads, fnIn, fnOut

vars == <<argv, server, fs, args, pc, panicMsg, req, res, stdout, buffer, n, total, err, srcPos, nread, written, shortReads, fnIn, fnOut>>

(***************************************************************************)
(* Bounds of the model.                                                    *)
(***************************************************************************)
MaxSizeLen == 3

MaxDataLen == 4

MaxShortReads == 2

OldLen == 3

(***************************************************************************)
(* Characters and strings.                                                 *)
(***************************************************************************)
Nil == <<>>

Some(x) == <<x>>

DigitChars == {"0", "1", "2", "3", "4", "5", "6", "7", "8", "9"}

LowerChars == {"a", "b", "c", "d", "e", "f", "g", "h", "i", "j", "k", "l", "m", "n", "o", "p", "q", "r", "s", "t", "u", "v", "w", "x", "y", "z"}

UpperChars == {"A", "B", "C", "D", "E", "F", "G", "H", "I", "J", "K", "L", "M", "N", "O", "P", "Q", "R", "S", "T", "U", "V", "W", "X", "Y", "Z"}

HexChars == DigitChars \cup {"a", "b", "c", "d", "e", "f", "A", "B", "C", "D", "E", "F"}

DigitVal(c) == CASE c = "0" -> 0 [] c = "1" -> 1 [] c = "2" -> 2 [] c = "3" -> 3 [] c = "4" -> 4 [] c = "5" -> 5 [] c = "6" -> 6 [] c = "7" -> 7 [] c = "8" -> 8 [] c = "9" -> 9

DigitChar(d) == CASE d = 0 -> "0" [] d = 1 -> "1" [] d = 2 -> "2" [] d = 3 -> "3" [] d = 4 -> "4" [] d = 5 -> "5" [] d = 6 -> "6" [] d = 7 -> "7" [] d = 8 -> "8" [] d = 9 -> "9"

RECURSIVE DecValue(_)
DecValue(s) == IF Len(s) = 0 THEN 0 ELSE 10 * DecValue(SubSeq(s, 1, Len(s) - 1)) + DigitVal(s[Len(s)])

HasPrefixAt(s, i, p) == i + Len(p) - 1 <= Len(s) /\ SubSeq(s, i, i + Len(p) - 1) = p

StrIndex(s, p) == IF \E i \in 1..Len(s) : HasPrefixAt(s, i, p) THEN (CHOOSE i \in 1..Len(s) : HasPrefixAt(s, i, p) /\ \A k \in 1..(i - 1) : ~HasPrefixAt(s, k, p)) - 1 ELSE -1

StringsUpTo(alphabet, k) == UNION {[1..m -> alphabet] : m \in 0..k}

(***************************************************************************)
(* int64 values.  A byte count can exceed the 32-bit integers of TLC, so an *)
(* int64 v is kept as two limbs, v = hi * 2^30 + lo with 0 <= lo < 2^30.   *)
(* Within the string bounds of the model the numeric part has at most nine *)
(* digits, so no product reaches 2^63 and ParseInt never reports a range   *)
(* error.                                                                  *)
(***************************************************************************)
Limb == 2 ^ 30

I64(x) == [hi |-> x \div Limb, lo |-> x % Limb]

I64Shift(x, k) == [hi |-> x \div (2 ^ (30 - k)), lo |-> (x % (2 ^ (30 - k))) * (2 ^ k)]

I64Int(z) == z.hi * Limb + z.lo

I64GE(x, z) == x \div Limb > z.hi \/ (x \div Limb = z.hi /\ x % Limb >= z.lo)

(***************************************************************************)
(* strconv.ParseInt(s, 10, 64) and parseSize.                              *)
(***************************************************************************)
ParseInt(s) == IF Len(s) = 0 THEN [err |-> TRUE, val |-> 0] ELSE LET neg == s[1] = "-"
                                                                  body == IF s[1] \in {"+", "-"} THEN Tail(s) ELSE s
                                                              IN IF Len(body) = 0 \/ \E i \in 1..Len(body) : body[i] \notin DigitChars
                                                                 THEN [err |-> TRUE, val |-> 0]
                                                                 ELSE [err |-> FALSE, val |-> IF neg THEN 0 - DecValue(body) ELSE DecValue(body)]

SuffixChars == {"k", "K", "m", "M", "g", "G"}

\* The switch of parseSize: a Go case with an empty body does nothing and
\* does not fall through, so only the upper-case letters multiply.
Multiply(number, multiplier) == CASE multiplier = "K" -> I64Shift(number, 10) [] multiplier = "M" -> I64Shift(number, 20) [] multiplier = "G" -> I64Shift(number, 30) [] OTHER -> I64Shift(number, 0)

\* kind "ok": (size, nil); kind "err": (size, err); kind "panic": the index
\* expression value[len(value)-1] is out of range.
parseSize(value) == IF Len(value) = 0 THEN [kind |-> "panic", size |-> I64(0)]
                    ELSE IF value[Len(value)] \in SuffixChars
                         THEN LET multiplier == value[Len(value)]
                                  number == ParseInt(SubSeq(value, 1, Len(value) - 1))
                              IN IF number.err THEN [kind |-> "err", size |-> I64(-1)]
                                 ELSE [kind |-> "ok", size |-> Multiply(number.val, multiplier)]
                         ELSE LET number == ParseInt(value)
                              IN [kind |-> IF number.err THEN "err" ELSE "ok", size |-> I64(number.val)]

(***************************************************************************)
(* json.NewDecoder(...).Decode(&temp): the decoder scans the first JSON    *)
(* value of the stream and stops; what follows the value is not looked at. *)
(* Each Scan operator returns the index after the scanned text, 0 on a     *)
(* syntax error or an unexpected end of input.                             *)
(***************************************************************************)
IsSpace(c) == c \in {" ", "\t", "\r", "\n"}

RECURSIVE SkipSpace(_, _)
SkipSpace(s, i) == IF i <= Len(s) /\ IsSpace(s[i]) THEN SkipSpace(s, i + 1) ELSE i

RECURSIVE SkipDigits(_, _)
SkipDigits(s, i) == IF i <= Len(s) /\ s[i] \in DigitChars THEN SkipDigits(s, i + 1) ELSE i

EscChars == {"b", "f", "n", "r", "t", "\\", "/", "\""}

RECURSIVE ScanString(_, _)
ScanString(s, i) == IF i > Len(s) THEN 0
                    ELSE IF s[i] = "\"" THEN i + 1
                    ELSE IF s[i] = "\\"
                         THEN IF i + 1 > Len(s) THEN 0
                              ELSE IF s[i + 1] \in EscChars THEN ScanString(s, i + 2)
                              ELSE IF s[i + 1] = "u" /\ i + 5 <= Len(s) /\ (\A k \in 2..5 : s[i + k] \in HexChars) THEN ScanString(s, i + 6)
                              ELSE 0
                    ELSE IF s[i] \in {"\t", "\r", "\n"} THEN 0
                    ELSE ScanString(s, i + 1)

ScanExp(s, i) == LET j == IF i <= Len(s) /\ s[i] \in {"+", "-"} THEN i + 1 ELSE i
                 IN IF j <= Len(s) /\ s[j] \in DigitChars THEN SkipDigits(s, j) ELSE 0

ScanFracExp(s, i) == IF i <= Len(s) /\ s[i] = "."
                     THEN IF i + 1 <= Len(s) /\ s[i + 1] \in DigitChars
                          THEN LET j == SkipDigits(s, i + 1)
                               IN IF j <= Len(s) /\ s[j] \in {"e", "E"} THEN ScanExp(s, j + 1) ELSE j
                          ELSE 0
                     ELSE IF i <= Len(s) /\ s[i] \in {"e", "E"} THEN ScanExp(s, i + 1)
                     ELSE i

ScanNumber(s, i) == LET j == IF s[i] = "-" THEN i + 1 ELSE i
                    IN IF j > Len(s) THEN 0
                       ELSE IF s[j] = "0" THEN ScanFracExp(s, j + 1)
                       ELSE IF s[j] \in DigitChars THEN ScanFracExp(s, SkipDigits(s, j + 1))
                       ELSE 0

ScanLiteral(s, i, word) == IF HasPrefixAt(s, i, word) THEN i + Len(word) ELSE 0

RECURSIVE ScanValue(_, _), ScanElements(_, _), ScanMembers(_, _)
ScanValue(s, i) == LET j == SkipSpace(s, i)
                   IN IF j > Len(s) THEN 0
                      ELSE IF s[j] = "{" THEN LET k == SkipSpace(s, j + 1) IN IF k <= Len(s) /\ s[k] = "}" THEN k + 1 ELSE ScanMembers(s, k)
                      ELSE IF s[j] = "[" THEN LET k == SkipSpace(s, j + 1) IN IF k <= Len(s) /\ s[k] = "]" THEN k + 1 ELSE ScanElements(s, k)
                      ELSE IF s[j] = "\"" THEN ScanString(s, j + 1)
                      ELSE IF s[j] = "-" \/ s[j] \in DigitChars THEN ScanNumber(s, j)
                      ELSE IF s[j] = "t" THEN ScanLiteral(s, j, <<"t", "r", "u", "e">>)
                      ELSE IF s[j] = "f" THEN ScanLiteral(s, j, <<"f", "a", "l", "s", "e">>)
                      ELSE IF s[j] = "n" THEN ScanLiteral(s, j, <<"n", "u", "l", "l">>)
                      ELSE 0

ScanElements(s, i) == LET e == ScanValue(s, i)
                          k == SkipSpace(s, e)
                      IN IF e = 0 \/ k > Len(s) THEN 0
                         ELSE IF s[k] = "," THEN ScanElements(s, k + 1)
                         ELSE IF s[k] = "]" THEN k + 1
                         ELSE 0

ScanMembers(s, i) == IF i > Len(s) \/ s[i] # "\"" THEN 0
                     ELSE LET e == ScanString(s, i + 1)
                              c == SkipSpace(s, e)
                          IN IF e = 0 \/ c > Len(s) \/ s[c] # ":" THEN 0
                             ELSE LET v == ScanValue(s, c + 1)
                                      k == SkipSpace(s, v)
                                  IN IF v = 0 \/ k > Len(s) THEN 0
                                     ELSE IF s[k] = "," THEN ScanMembers(s, SkipSpace(s, k + 1))
                                     ELSE IF s[k] = "}" THEN k + 1
                                     ELSE 0

DecodeOK(data) == ScanValue(data, 1) # 0

(***************************************************************************)
(* regexp `.*?=.+?&?\b` used with Match: an unanchored search.             *)
(***************************************************************************)
IsWordChar(c) == c \in DigitChars \cup LowerChars \cup UpperChars \cup {"_"}

Dot(c) == c # "\n"

WordBoundary(s, p) == (p >= 1 /\ IsWordChar(s[p])) # (p + 1 <= Len(s) /\ IsWordChar(s[p + 1]))

FormPatternMatch(s) == \E i \in 1..Len(s) : /\ s[i] = "="
                                            /\ \E j \in (i + 1)..Len(s) : /\ \A k \in (i + 1)..j : Dot(s[k])
                                                                          /\ \/ WordBoundary(s, j)
                                                                             \/ (j + 1 <= Len(s) /\ s[j + 1] = "&" /\ WordBoundary(s, j + 1))

ApplicationJSON == <<"a","p","p","l","i","c","a","t","i","o","n","/","j","s","o","n">>

FormURLEncoded == <<"a","p","p","l","i","c","a","t","i","o","n","/","x","-","w","w","w","-","f","o","r","m","-","u","r","l","e","n","c","o","d","e","d">>

guessDataType(data) == IF DecodeOK(data) THEN [contentType |-> ApplicationJSON, requiresHeader |-> TRUE]
                       ELSE IF FormPatternMatch(data) THEN [contentType |-> FormURLEncoded, requiresHeader |-> TRUE]
                       ELSE [contentType |-> <<>>, requiresHeader |-> FALSE]

(***************************************************************************)
(* Library string functions used by parseFlags and main.                   *)
(***************************************************************************)
UpperOf(c) == CASE c = "a" -> "A" [] c = "b" -> "B" [] c = "c" -> "C" [] c = "d" -> "D" [] c = "e" -> "E" [] c = "f" -> "F" [] c = "g" -> "G" [] c = "h" -> "H" [] c = "i" -> "I" [] c = "j" -> "J" [] c = "k" -> "K" [] c = "l" -> "L" [] c = "m" -> "M" [] c = "n" -> "N" [] c = "o" -> "O" [] c = "p" -> "P" [] c = "q" -> "Q" [] c = "r" -> "R" [] c = "s" -> "S" [] c = "t" -> "T" [] c = "u" -> "U" [] c = "v" -> "V" [] c = "w" -> "W" [] c = "x" -> "X" [] c = "y" -> "Y" [] c = "z" -> "Z" [] OTHER -> c

LowerOf(c) == CASE c = "A" -> "a" [] c = "B" -> "b" [] c = "C" -> "c" [] c = "D" -> "d" [] c = "E" -> "e" [] c = "F" -> "f" [] c = "G" -> "g" [] c = "H" -> "h" [] c = "I" -> "i" [] c = "J" -> "j" [] c = "K" -> "k" [] c = "L" -> "l" [] c = "M" -> "m" [] c = "N" -> "n" [] c = "O" -> "o" [] c = "P" -> "p" [] c = "Q" -> "q" [] c = "R" -> "r" [] c = "S" -> "s" [] c = "T" -> "t" [] c = "U" -> "u" [] c = "V" -> "v" [] c = "W" -> "w" [] c = "X" -> "x" [] c = "Y" -> "y" [] c = "Z" -> "z" [] OTHER -> c

ToUpper(s) == [i \in 1..Len(s) |-> UpperOf(s[i])]

RECURSIVE TrimLeft(_)
TrimLeft(s) == IF Len(s) > 0 /\ IsSpace(s[1]) THEN TrimLeft(Tail(s)) ELSE s

RECURSIVE TrimRight(_)
TrimRight(s) == IF Len(s) > 0 /\ IsSpace(s[Len(s)]) THEN TrimRight(SubSeq(s, 1, Len(s) - 1)) ELSE s

TrimSpace(s) == TrimRight(TrimLeft(s))

RECURSIVE Itoa(_)
Itoa(x) == IF x < 10 THEN <<DigitChar(x)>> ELSE Append(Itoa(x \div 10), DigitChar(x % 10))

\* The token characters of a header key (the quote, asterisk and backquote
\* are token characters too; no key of the model contains them).
TokenChars == DigitChars \cup LowerChars \cup UpperChars \cup {"-", "_", ".", "!", "#", "$", "%", "&", "+", "^", "|", "~"}

\* textproto.CanonicalMIMEHeaderKey, applied by http.Header.Add.
CanonicalMIMEHeaderKey(s) == IF \E i \in 1..Len(s) : s[i] \notin TokenChars THEN s
                             ELSE [i \in 1..Len(s) |-> IF i = 1 \/ s[i - 1] = "-" THEN UpperOf(s[i]) ELSE LowerOf(s[i])]

\* path.Base
RECURSIVE TrimSlashes(_)
TrimSlashes(s) == IF Len(s) > 0 /\ s[Len(s)] = "/" THEN TrimSlashes(SubSeq(s, 1, Len(s) - 1)) ELSE s

PathBase(p) == IF Len(p) = 0 THEN <<".">>
               ELSE LET t == TrimSlashes(p)
                        cut == IF \E i \in 1..Len(t) : t[i] = "/" THEN CHOOSE i \in 1..Len(t) : t[i] = "/" /\ \A k \in (i + 1)..Len(t) : t[k] # "/" ELSE 0
                    IN IF Len(t) = 0 THEN <<"/">> ELSE SubSeq(t, cut + 1, Len(t))

\* regexp `filename="?(.+)"?` with FindStringSubmatch: the leftmost match;
\* the optional quote is taken when the match can still be completed, the
\* group is greedy and runs to the end of the line, so the closing quote
\* pattern always matches the empty string.  The result is the sequence of
\* submatches, empty when nothing matches.
FilenameLit == <<"f","i","l","e","n","a","m","e","=">>

RECURSIVE LineEnd(_, _)
LineEnd(s, i) == IF i <= Len(s) /\ Dot(s[i]) THEN LineEnd(s, i + 1) ELSE i

FilenameMatchAt(s, i) == HasPrefixAt(s, i, FilenameLit) /\ i + 9 <= Len(s) /\ Dot(s[i + 9])

FindFilenameSubmatch(s) == IF \E i \in 1..Len(s) : FilenameMatchAt(s, i)
                           THEN LET i == CHOOSE i \in 1..Len(s) : FilenameMatchAt(s, i) /\ \A k \in 1..(i - 1) : ~FilenameMatchAt(s, k)
                                    v == i + 9
                                    g == IF s[v] = "\"" /\ v + 1 <= Len(s) /\ Dot(s[v + 1]) THEN v + 1 ELSE v
                                    e == LineEnd(s, g)
                                IN <<SubSeq(s, i, e - 1), SubSeq(s, g, e - 1)>>
                           ELSE <<>>

(***************************************************************************)
(* The program state.  argv is the command line as go-flags stores it into *)
(* the Arguments struct (a map option stays nil unless -H is given); server*)
(* is the response the remote end will give; fs is the file system.        *)
(***************************************************************************)
BufSize == 1024

ContentType == <<"C","o","n","t","e","n","t","-","T","y","p","e">>

ContentLength == <<"C","o","n","t","e","n","t","-","L","e","n","g","t","h">>

UpperContentType == <<"C","O","N","T","E","N","T","-","T","Y","P","E">>

UpperContentLength == <<"C","O","N","T","E","N","T","-","L","E","N","G","T","H">>

SchemeSep == <<":","/","/">>

HTTPScheme == <<"h","t","t","p",":","/","/">>

\* The zero value of the global `args`.
Arguments == [Data |-> Nil, PostWithGet |-> FALSE, OutputFile |-> Nil, UseRemoteName |-> FALSE, OutputStream |-> Nil, HTTPMethod |-> "", Headers |-> Nil, Information |-> FALSE, LimitRate |-> Nil, LimitRateBytes |-> I64(0), URL |-> <<>>, MaxDownload |-> Nil, MaxDownloadBytes |-> I64(0)]

\* Byte i (from 0) of the response body.
SrcByte(i) == i % 251

Source(size) == [i \in 1..size |-> SrcByte(i - 1)]

Min(a, b) == IF a < b THEN a ELSE b

MapSet(m, k, v) == [x \in DOMAIN m \cup {k} |-> IF x = k THEN v ELSE m[x]]

(***************************************************************************)
(* parseFlags                                                              *)
(***************************************************************************)
InferMethod(a) == IF a.HTTPMethod = ""
                  THEN IF a.Information THEN "HEAD"
                       ELSE IF a.Data # Nil /\ ~a.PostWithGet THEN "POST"
                       ELSE a.HTTPMethod
                  ELSE "GET"

IsSpecified(headers, upperName) == headers # Nil /\ \E key \in DOMAIN headers[1] : ToUpper(key) = upperName

urlOf(f) == IF StrIndex(f.unused[1], SchemeSep) < 0 THEN HTTPScheme \o f.unused[1] ELSE f.unused[1]

isFile(f) == f.Data # Nil /\ Len(f.Data[1]) > 0 /\ f.Data[1][1] = "@"

dataOf(f, files) == IF isFile(f) THEN Some(files[Tail(f.Data[1])]) ELSE f.Data

setType(f, files) == ~IsSpecified(f.Headers, UpperContentType) /\ f.Data # Nil /\ guessDataType(dataOf(f, files)[1]).requiresHeader

setLength(f) == f.Data # Nil /\ ~IsSpecified(f.Headers, UpperContentLength)

withType(f, files) == IF setType(f, files) THEN MapSet(f.Headers[1], ContentType, guessDataType(dataOf(f, files)[1]).contentType) ELSE f.Headers[1]

headersOf(f, files) == IF f.Headers = Nil THEN Nil
                       ELSE IF setLength(f) THEN Some(MapSet(withType(f, files), ContentLength, Itoa(Len(dataOf(f, files)[1]))))
                       ELSE Some(withType(f, files))

\* How far parseFlags gets: the number of its steps completed (1 URL,
\* 2 method, 3 @file, 5 content headers, 6 --limit-rate, 7 --max-filesize)
\* and the panic that stops it, "" when it returns.
parseFlagsOutcome(f, files) == IF Len(f.unused) = 0 THEN [step |-> 0, panic |-> "no URL specified"]
                               ELSE IF f.Data # Nil /\ Len(f.Data[1]) = 0 THEN [step |-> 2, panic |-> "index out of range"]
                               ELSE IF isFile(f) /\ Tail(f.Data[1]) \notin DOMAIN files THEN [step |-> 2, panic |-> "no such file"]
                               ELSE IF (setType(f, files) \/ setLength(f)) /\ f.Headers = Nil THEN [step |-> 3, panic |-> "assignment to entry in nil map"]
                               ELSE IF f.LimitRate # Nil /\ parseSize(f.LimitRate[1]).kind = "panic" THEN [step |-> 5, panic |-> "index out of range"]
                               ELSE IF f.LimitRate # Nil /\ parseSize(f.LimitRate[1]).kind = "err" THEN [step |-> 6, panic |-> "invalid syntax"]
                               ELSE IF f.MaxDownload # Nil /\ parseSize(f.MaxDownload[1]).kind = "panic" THEN [step |-> 6, panic |-> "index out of range"]
                               ELSE IF f.MaxDownload # Nil /\ parseSize(f.MaxDownload[1]).kind = "err" THEN [step |-> 7, panic |-> "invalid syntax"]
                               ELSE [step |-> 7, panic |-> ""]

\* The global args after the first `step` steps of parseFlags.
argsAfter(f, files, step) == [Data |-> IF step >= 3 THEN dataOf(f, files) ELSE f.Data,
                              PostWithGet |-> f.PostWithGet,
                              OutputFile |-> f.OutputFile,
                              UseRemoteName |-> f.UseRemoteName,
                              OutputStream |-> Nil,
                              HTTPMethod |-> IF step >= 2 THEN InferMethod(f) ELSE f.HTTPMethod,
                              Headers |-> IF step >= 5 THEN headersOf(f, files) ELSE f.Headers,
                              Information |-> f.Information,
                              LimitRate |-> f.LimitRate,
                              LimitRateBytes |-> IF step >= 6 /\ f.LimitRate # Nil THEN parseSize(f.LimitRate[1]).size ELSE I64(0),
                              URL |-> IF step >= 1 THEN urlOf(f) ELSE <<>>,
                              MaxDownload |-> f.MaxDownload,
                              MaxDownloadBytes |-> IF step >= 7 /\ f.MaxDownload # Nil THEN parseSize(f.MaxDownload[1]).size ELSE I64(0)]

parseFlags == /\ pc = "start"
              /\ args' = argsAfter(argv, fs, parseFlagsOutcome(argv, fs).step)
              /\ panicMsg' = parseFlagsOutcome(argv, fs).panic
              /\ pc' = IF parseFlagsOutcome(argv, fs).panic = "" THEN "parsed" ELSE "panic"
              /\ UNCHANGED <<argv, server, fs, req, res, stdout, buffer, n, total, err, srcPos, nread, written, shortReads, fnIn, fnOut>>

(***************************************************************************)
(* main: the request is built and sent.                                    *)
(***************************************************************************)
HeaderAdd(h, key, value) == LET ck == CanonicalMIMEHeaderKey(key)
                            IN IF ck \in DOMAIN h THEN [h EXCEPT ![ck] = Append(@, value)] ELSE MapSet(h, ck, <<value>>)

RECURSIVE AddHeaders(_, _, _)
AddHeaders(h, m, order) == IF Len(order) = 0 THEN h ELSE AddHeaders(HeaderAdd(h, Head(order), TrimSpace(m[Head(order)])), m, Tail(order))

\* The orders in which `range` may visit the keys of a map.
RangeOrders(m) == {o \in [1..Cardinality(DOMAIN m) -> DOMAIN m] : \A i, j \in DOMAIN o : i # j => o[i] # o[j]}

EmptyMap == [x \in {} |-> <<>>]

NoRequest == [Method |-> "", URL |-> <<>>, Body |-> Nil, Limited |-> FALSE, Header |-> EmptyMap]

\* http.NewRequest turns an empty method into GET; ratelimit.NewBucketWithRate
\* panics on a capacity that is not positive.
newRequest == /\ pc = "parsed"
              /\ \E order \in (IF args.Headers = Nil THEN {<<>>} ELSE RangeOrders(args.Headers[1])) :
                    LET limited == args.Data # Nil /\ args.LimitRate # Nil
                        badBucket == limited /\ (args.LimitRateBytes.hi < 0 \/ args.LimitRateBytes = I64(0))
                        header == IF args.Headers = Nil THEN EmptyMap ELSE AddHeaders(EmptyMap, args.Headers[1], order)
                    IN /\ req' = IF badBucket THEN req ELSE [Method |-> IF args.HTTPMethod = "" THEN "GET" ELSE args.HTTPMethod, URL |-> args.URL, Body |-> args.Data, Limited |-> limited, Header |-> header]
                       /\ panicMsg' = IF badBucket THEN "token bucket capacity is not > 0" ELSE panicMsg
                       /\ pc' = IF badBucket THEN "panic" ELSE "built"
              /\ UNCHANGED <<argv, server, fs, args, res, stdout, buffer, n, total, err, srcPos, nread, written, shortReads, fnIn, fnOut>>

NoResponse == [ContentDisposition |-> <<>>, Size |-> 0]

\* http.DefaultClient.Do: a HEAD response carries no body.
doRequest == /\ pc = "built"
             /\ res' = IF server.fail = "connect" THEN res ELSE [ContentDisposition |-> server.disposition, Size |-> IF req.Method = "HEAD" THEN 0 ELSE server.size]
             /\ panicMsg' = IF server.fail = "connect" THEN "connection refused" ELSE panicMsg
             /\ pc' = IF server.fail = "connect" THEN "panic" ELSE "responded"
             /\ UNCHANGED <<argv, server, fs, args, req, stdout, buffer, n, total, err, srcPos, nread, written, shortReads, fnIn, fnOut>>

(***************************************************************************)
(* main: the output stream.  os.OpenFile is called with O_CREATE|O_WRONLY: *)
(* a missing file is created empty, an existing file keeps its contents,   *)
(* and the stream starts at offset 0.                                      *)
(***************************************************************************)
remoteName == LET disposition == res.ContentDisposition
                  matches == FindFilenameSubmatch(disposition)
              IN IF Len(disposition) # 0
                 THEN IF Len(matches) >= 2 THEN Some(matches[2]) ELSE Nil
                 ELSE Some(PathBase(args.URL))

OpenFails(name) == name = <<".">> \/ \E i \in 1..Len(name) : name[i] = "/"

OpenFile(files, name) == IF name \in DOMAIN files THEN files ELSE MapSet(files, name, <<>>)

Stdout == [kind |-> "stdout", name |-> <<>>, off |-> 0]

prepareOutput == /\ pc = "responded"
                 /\ LET outputFile == IF args.OutputFile = Nil /\ args.UseRemoteName THEN remoteName ELSE args.OutputFile
                        toStdout == args.OutputFile = Nil /\ ~args.UseRemoteName
                        failed == outputFile # Nil /\ OpenFails(outputFile[1])
                    IN /\ args' = [args EXCEPT !.OutputFile = outputFile,
                                               !.OutputStream = IF outputFile # Nil THEN (IF failed THEN Nil ELSE Some([kind |-> "file", name |-> outputFile[1], off |-> 0]))
                                                                ELSE IF toStdout THEN Some(Stdout) ELSE Nil]
                       /\ fs' = IF outputFile # Nil /\ ~failed THEN OpenFile(fs, outputFile[1]) ELSE fs
                       /\ panicMsg' = IF failed THEN "open failed" ELSE panicMsg
                       /\ pc' = IF failed THEN "panic" ELSE "copy"
                 /\ UNCHANGED <<argv, server, req, res, stdout, buffer, n, total, err, srcPos, nread, written, shortReads, fnIn, fnOut>>

(***************************************************************************)
(* main: one iteration of the copy loop.                                   *)
(***************************************************************************)
\* The results (k, e) that res.Body.Read may give at offset pos of a body
\* of the given size: up to BufSize bytes, io.EOF with or after the last
\* byte, or a read error when the connection breaks.
ReadResults(size, pos, short, fail) == LET rem == size - pos
                                           full == Min(BufSize, rem)
                                       IN IF rem = 0 THEN {[k |-> 0, e |-> "EOF"]}
                                          ELSE {[k |-> full, e |-> "nil"]}
                                               \cup (IF full = rem THEN {[k |-> full, e |-> "EOF"]} ELSE {})
                                               \cup (IF short < MaxShortReads THEN {[k |-> 0, e |-> "nil"], [k |-> 1, e |-> IF rem = 1 THEN "EOF" ELSE "nil"]} ELSE {})
                                               \cup (IF fail = "body" THEN {[k |-> 0, e |-> "error"]} ELSE {})

limitExceeded(a, tot, k) == a.MaxDownload # Nil /\ I64GE(tot + k - 1, a.MaxDownloadBytes)

limitReached(a, tot, k) == a.MaxDownload # Nil /\ I64GE(tot + k, a.MaxDownloadBytes)

clamp(a, tot, k) == IF limitReached(a, tot, k) THEN I64Int(a.MaxDownloadBytes) - tot ELSE k

wholeBuffer(buf, k) == buf

chunk(buf, k) == SubSeq(buf, 1, k)

WriteAt(content, off, data) == SubSeq(content, 1, off) \o data \o SubSeq(content, off + Len(data) + 1, Len(content))

copyChunk == /\ pc = "copy"
             /\ \E r \in ReadResults(res.Size, srcPos, shortReads, server.fail) :
                   LET n1 == clamp(args, total, r.k)
                       e1 == IF limitReached(args, total, r.k) THEN "EOF" ELSE r.e
                       badSlice == n1 < 0 \/ n1 > BufSize
                       stream == args.OutputStream
                       data == chunk(buffer', n1)
                       why == IF r.e = "error" THEN "read error"
                              ELSE IF badSlice THEN "slice bounds out of range"
                              ELSE IF stream = Nil THEN "invalid argument"
                              ELSE ""
                   IN /\ buffer' = [i \in 1..r.k |-> SrcByte(srcPos + i - 1)] \o SubSeq(buffer, r.k + 1, BufSize)
                      /\ srcPos' = srcPos + r.k
                      /\ nread' = r.k
                      /\ shortReads' = IF r.e = "nil" /\ r.k < Min(BufSize, res.Size - srcPos) THEN shortReads + 1 ELSE shortReads
                      /\ n' = IF r.e = "error" THEN r.k ELSE n1
                      /\ err' = IF r.e = "error" THEN r.e ELSE e1
                      /\ total' = IF r.e = "error" THEN total ELSE total + n1
                      /\ panicMsg' = why
                      /\ pc' = IF why # "" THEN "panic" ELSE IF e1 = "EOF" THEN "done" ELSE "copy"
                      /\ written' = IF why = "" THEN written \o data ELSE written
                      /\ stdout' = IF why = "" /\ stream[1].kind = "stdout" THEN stdout \o data ELSE stdout
                      /\ fs' = IF why = "" /\ stream[1].kind = "file" THEN [fs EXCEPT ![stream[1].name] = WriteAt(@, stream[1].off, data)] ELSE fs
                      /\ args' = IF why = "" /\ stream[1].kind = "file" THEN [args EXCEPT !.OutputStream = Some([stream[1] EXCEPT !.off = @ + n1])] ELSE args
             /\ UNCHANGED <<argv, server, req, res, fnIn, fnOut>>

(***************************************************************************)
(* The pure functions as one-step machines.                                *)
(***************************************************************************)
applyParseSize == /\ pc = "size"
                  /\ fnOut' = parseSize(fnIn)
                  /\ pc' = "returned"
                  /\ UNCHANGED <<argv, server, fs, args, panicMsg, req, res, stdout, buffer, n, total, err, srcPos, nread, written, shortReads, fnIn>>

applyGuessDataType == /\ pc = "guess"
                      /\ fnOut' = guessDataType(fnIn)
                      /\ pc' = "returned"
                      /\ UNCHANGED <<argv, server, fs, args, panicMsg, req, res, stdout, buffer, n, total, err, srcPos, nread, written, shortReads, fnIn>>

(***************************************************************************)
(* Inputs.                                                                 *)
(***************************************************************************)
URLArg == <<"e","x","a","m","p","l","e",".","c","o","m","/","f","i","l","e","s","/","d","a","t","a",".","b","i","n">>

OutBin == <<"o","u","t",".","b","i","n">>

DataBin == <<"d","a","t","a",".","b","i","n">>

ReportCsv == <<"r","e","p","o","r","t",".","c","s","v">>

BodyJson == <<"b","o","d","y",".","j","s","o","n">>

QuotedDisposition == <<"a","t","t","a","c","h","m","e","n","t",";"," ","f","i","l","e","n","a","m","e","=","\"","r","e","p","o","r","t",".","c","s","v","\"">>

PlainDisposition == <<"a","t","t","a","c","h","m","e","n","t",";"," ","f","i","l","e","n","a","m","e","=","r","e","p","o","r","t",".","c","s","v">>

BareDisposition == <<"a","t","t","a","c","h","m","e","n","t">>

JsonBody == <<"{","\"","a","\"",":","1","}">>

FormBody == <<"a","=","b","&","c","=","d">>

TextBody == <<"h","e","l","l","o">>

FileBody == <<"[","1",","," ","2","]">>

NoFlags == [Data |-> Nil, PostWithGet |-> FALSE, OutputFile |-> Nil, UseRemoteName |-> FALSE, HTTPMethod |-> "", Headers |-> Nil, Information |-> FALSE, LimitRate |-> Nil, MaxDownload |-> Nil, unused |-> <<URLArg>>]

OldContent == [i \in 1..OldLen |-> 255]

SrcSizes == {0, 1, 2, 1024, 1025, 5000}

MaxDownloads == {Nil, Some(<<"0">>), Some(<<"-","1">>), Some(<<"1","K">>), Some(<<"2","0","0","0">>), Some(<<"1","G">>)}

CopyArgv == {[NoFlags EXCEPT !.OutputFile = o, !.UseRemoteName = r, !.MaxDownload = m] : o \in {Nil, Some(OutBin)}, r \in BOOLEAN, m \in MaxDownloads}

CopyServers == {[disposition |-> d, size |-> z, fail |-> "none"] : d \in {<<>>, QuotedDisposition, PlainDisposition, BareDisposition}, z \in SrcSizes}

CopyFiles == {EmptyMap, [f \in {OutBin, DataBin, ReportCsv} |-> OldContent]}

DataArgs == {Nil, Some(JsonBody), Some(FormBody), Some(TextBody), Some(<<"@">> \o BodyJson), Some(<<"@","m","i","s","s","i","n","g">>), Some(<<>>)}

HeaderArgs == {Nil,
               Some([k \in {<<"X","-","T","r","a","c","e">>} |-> <<" ","1">>]),
               Some([k \in {<<"c","o","n","t","e","n","t","-","t","y","p","e">>} |-> <<" ","t","e","x","t","/","p","l","a","i","n"," ">>]),
               Some([k \in {UpperContentLength} |-> <<" ","5">>]),
               Some([k \in {ContentType, ContentLength} |-> IF k = ContentType THEN <<" ","t","e","x","t","/","p","l","a","i","n">> ELSE <<" ","9","9">>])}

FlagsArgv == {[NoFlags EXCEPT !.HTTPMethod = x, !.Information = i, !.PostWithGet = g, !.Data = d, !.Headers = h, !.LimitRate = l, !.MaxDownload = m, !.unused = u] :
                 x \in {"", "PUT"}, i \in BOOLEAN, g \in BOOLEAN, d \in DataArgs, h \in HeaderArgs,
                 l \in {Nil, Some(<<"1","K">>), Some(<<"0">>)}, m \in {Nil, Some(<<"5","M">>), Some(<<"a","b","c","K">>)}, u \in {<<URLArg>>, <<HTTPScheme \o URLArg>>, <<>>}}

FlagsServers == {[disposition |-> <<>>, size |-> 2, fail |-> f] : f \in {"none", "connect", "body"}}

FlagsFiles == {[f \in {BodyJson} |-> FileBody]}

SizeAlphabet == {"0", "1", "5", "-", "a", "k", "K", "m", "M", "g", "G"}

SizeExamples == {<<"1","1","K">>, <<"5","M">>, <<"2","G">>, <<"1","0","0">>, <<"a","b","c","K">>, <<"1","1","k">>, <<"+","7","m">>}

SizeInputs == StringsUpTo(SizeAlphabet, MaxSizeLen) \cup SizeExamples

DataAlphabet == {"a", "1", "=", "&", " ", "\"", "[", "]"}

DataExamples == {JsonBody, FormBody, TextBody, FileBody, JsonBody \o <<"x">>, <<"t","r","u","e">>, <<"n","u","l","l","=","1">>, <<"-","1",".","5","e","3">>}

DataInputs == StringsUpTo(DataAlphabet, MaxDataLen) \cup DataExamples

(***************************************************************************)
(* Specifications.                                                         *)
(***************************************************************************)
InitRun == /\ args = Arguments
           /\ panicMsg = ""
           /\ req = NoRequest
           /\ res = NoResponse
           /\ stdout = <<>>
           /\ buffer = [i \in 1..BufSize |-> 0]
           /\ n = 0
           /\ total = 0
           /\ err = "nil"
           /\ srcPos = 0
           /\ nread = 0
           /\ written = <<>>
           /\ shortReads = 0

Init == /\ InitRun
        /\ pc = "start"
        /\ argv \in CopyArgv
        /\ server \in CopyServers
        /\ fs \in CopyFiles
        /\ fnIn = <<>>
        /\ fnOut = <<>>

InitFlags == /\ InitRun
             /\ pc = "start"
             /\ argv \in FlagsArgv
             /\ server \in FlagsServers
             /\ fs \in FlagsFiles
             /\ fnIn = <<>>
             /\ fnOut = <<>>

InitSize == /\ InitRun
            /\ pc = "size"
            /\ argv = NoFlags
            /\ server = [disposition |-> <<>>, size |-> 0, fail |-> "none"]
            /\ fs = EmptyMap
            /\ fnIn \in SizeInputs
            /\ fnOut = <<>>

InitGuess == /\ InitRun
             /\ pc = "guess"
             /\ argv = NoFlags
             /\ server = [disposition |-> <<>>, size |-> 0, fail |-> "none"]
             /\ fs = EmptyMap
             /\ fnIn \in DataInputs
             /\ fnOut = <<>>

Next == \/ parseFlags
        \/ newRequest
        \/ doRequest
        \/ prepareOutput
        \/ copyChunk

NextSize == applyParseSize

NextGuess == applyGuessDataType

Spec == Init /\ [][Next]_vars

SpecFlags == InitFlags /\ [][Next]_vars

SpecSize == InitSize /\ [][NextSize]_vars

SpecGuess == InitGuess /\ [][NextGuess]_vars

(***************************************************************************)
(* Properties.                                                             *)
(***************************************************************************)
AllDigits(s) == Len(s) > 0 /\ \A i \in 1..Len(s) : s[i] \in DigitChars

ClaimedMethod(f) == IF f.HTTPMethod # "" THEN f.HTTPMethod
                    ELSE IF f.Information THEN "HEAD"
                    ELSE IF f.Data # Nil /\ ~f.PostWithGet THEN "POST"
                    ELSE "GET"

\* C1: for every combination of -X, -I, -d and -G the request method is the
\* -X value when -X was given, otherwise HEAD when -I is set, otherwise POST
\* when a -d body is present and -G is not set, otherwise GET.
C1_MethodSelection == req.Method # "" => req.Method = ClaimedMethod(argv)

ClaimedShift(c) == CASE c \in {"k", "K"} -> 10 [] c \in {"m", "M"} -> 20 [] c \in {"g", "G"} -> 30

\* C2: parseSize of a base-10 integer N followed by one suffix letter is
\* N*1024 for k or K, N*1024^2 for m or M, N*1024^3 for g or G; parseSize
\* of a string with no suffix letter is the integer itself.
C2_SizeSuffix == pc = "returned" => LET last == fnIn[Len(fnIn)]
                                        prefix == SubSeq(fnIn, 1, Len(fnIn) - 1)
                                    IN /\ (Len(fnIn) >= 2 /\ last \in SuffixChars /\ AllDigits(prefix)) => fnOut = [kind |-> "ok", size |-> I64Shift(DecValue(prefix), ClaimedShift(last))]
                                       /\ AllDigits(fnIn) => fnOut = [kind |-> "ok", size |-> I64(DecValue(fnIn))]
                                       /\ fnIn = <<"1","1","K">> => fnOut.size = I64(11264)
                                       /\ fnIn = <<"5","M">> => fnOut.size = I64(5242880)
                                       /\ fnIn = <<"2","G">> => fnOut.size = [hi |-> 2, lo |-> 0]
                                       /\ fnIn = <<"1","0","0">> => fnOut.size = I64(100)

LimitOf == I64Int(args.MaxDownloadBytes)

\* C3: with a max-download limit L >= 0 and a source of S bytes, when the
\* loop ends the bytes written number exactly min(L, S), and the iteration
\* in which the running total reaches L is the last one: the source is not
\* read again, even when it has not reached end-of-stream.
C3_LimitedCopy == /\ [](argv.MaxDownload # Nil /\ pc = "done" /\ args.MaxDownloadBytes.hi >= 0 => Len(written) = Min(LimitOf, res.Size))
                  /\ [][argv.MaxDownload # Nil /\ pc = "copy" /\ args.MaxDownloadBytes.hi >= 0 /\ total' >= LimitOf => pc' # "copy"]_vars

C3_Witness == /\ pc = "done"
              /\ argv.MaxDownload = Some(<<"2","0","0","0">>)
              /\ res.Size = 5000
              /\ srcPos < res.Size
              /\ Len(written) = 2000
              /\ total = 2000

\* C4: in every iteration, for every max-download value the size parser
\* accepts, the length of the chunk written is at least 0 and at most the
\* number of bytes just read; a clamp result that is zero or negative is
\* written as a zero-length chunk, never as a negative-length slice.
C4_ChunkWithinRead == n >= 0 /\ n <= nread /\ panicMsg # "slice bounds out of range"

\* C5: with no max-download configured, for every split of the source into
\* reads the concatenation of the chunks written equals the source byte for
\* byte, and the loop ends once the source signals end-of-stream.
C5_FullCopy == argv.MaxDownload = Nil => /\ pc = "done" => written = Source(res.Size) /\ srcPos = res.Size
                                         /\ pc = "copy" => err = "nil"

C5_Witness == /\ pc = "done"
              /\ argv.MaxDownload = Nil
              /\ res.Size = 5000
              /\ shortReads > 0
              /\ written = Source(5000)

ParsePanics == {"no URL specified", "index out of range", "no such file", "assignment to entry in nil map", "invalid syntax"}

BodySent(f) == IF Len(f.Data[1]) > 0 /\ f.Data[1][1] = "@" THEN fs[Tail(f.Data[1])] ELSE f.Data[1]

SizeOK(o) == o = Nil \/ parseSize(o[1]).kind = "ok"

ReadableData(f) == Len(f.Data[1]) > 0 /\ f.Data[1][1] = "@" => Tail(f.Data[1]) \in DOMAIN fs

UserGave(f, upperName) == f.Headers # Nil /\ \E key \in DOMAIN f.Headers[1] : ToUpper(key) = upperName

FirstOf(s, from, stops) == IF \E i \in from..Len(s) : s[i] \in stops THEN CHOOSE i \in from..Len(s) : s[i] \in stops /\ \A k \in from..(i - 1) : s[k] \notin stops ELSE Len(s) + 1

\* The filename= parameter of a Content-Disposition value: a quoted string
\* or a token that ends at the next semicolon.
FilenameParam(d) == LET i == StrIndex(d, FilenameLit)
                        v == i + 10
                        quoted == v <= Len(d) /\ d[v] = "\""
                        start == IF quoted THEN v + 1 ELSE v
                        stop == FirstOf(d, start, IF quoted THEN {"\""} ELSE {";"})
                    IN IF i < 0 \/ stop = start THEN Nil ELSE Some(SubSeq(d, start, stop - 1))

ClaimedStream == IF argv.OutputFile # Nil THEN [kind |-> "file", name |-> argv.OutputFile[1]]
                 ELSE IF argv.UseRemoteName
                      THEN [kind |-> "file", name |-> IF FilenameParam(res.ContentDisposition) # Nil THEN FilenameParam(res.ContentDisposition)[1] ELSE PathBase(args.URL)]
                      ELSE [kind |-> "stdout", name |-> <<>>]

\* C7: the destination is the -o file; otherwise with -O the file named by
\* the filename= parameter of Content-Disposition when the header yields one
\* and by the final path segment of the URL in every other case; otherwise
\* standard output; the copy loop always starts with a usable destination.
C7_OutputDestination == pc = "copy" => /\ args.OutputStream # Nil
                                       /\ args.OutputStream[1].kind = ClaimedStream.kind
                                       /\ args.OutputStream[1].name = ClaimedStream.name

NumericPortion(s) == IF Len(s) > 0 /\ s[Len(s)] \in SuffixChars THEN SubSeq(s, 1, Len(s) - 1) ELSE s

ValidInteger(s) == AllDigits(IF Len(s) > 0 /\ s[1] \in {"+", "-"} THEN Tail(s) ELSE s)

\* C8: for the empty string and for every string whose numeric portion is
\* not a valid base-10 integer, parseSize returns a parse error instead of a
\* byte count and does not fail on an out-of-range index.
C8_SizeErrors == (pc = "returned" /\ (Len(fnIn) = 0 \/ ~ValidInteger(NumericPortion(fnIn)))) => fnOut.kind = "err"

IsJSONValue(s) == LET e == ScanValue(s, 1) IN e # 0 /\ SkipSpace(s, e) > Len(s)

IsPair(t) == \E q \in 2..(Len(t) - 1) : t[q] = "=" /\ \A i \in 1..Len(t) : i # q => t[i] \notin {"=", "&"}

RECURSIVE IsFormPairs(_)
IsFormPairs(s) == LET p == FirstOf(s, 1, {"&"})
                  IN /\ IsPair(SubSeq(s, 1, p - 1))
                     /\ p <= Len(s) => IsFormPairs(SubSeq(s, p + 1, Len(s)))

\* C9: guessDataType gives application/json exactly when the whole string
\* is a single valid JSON value, otherwise the form type exactly when the
\* string has the form key=value[&key=value...], otherwise no header.
C9_Classification == pc = "returned" => fnOut = IF IsJSONValue(fnIn) THEN [contentType |-> ApplicationJSON, requiresHeader |-> TRUE]
                                                ELSE IF IsFormPairs(fnIn) THEN [contentType |-> FormURLEncoded, requiresHeader |-> TRUE]
                                                ELSE [contentType |-> <<>>, requiresHeader |-> FALSE]

\* C10: when the destination is a file, after a successful run its contents
\* are exactly the bytes written by the copy loop, whatever it held before.
C10_FileTruncated == (pc = "done" /\ args.OutputStream[1].kind = "file") => fs[args.OutputStream[1].name] = written

====
